---- MODULE Spec2Model ----
(***************************************************************************)
(* A model of wholecell/io/tablereader.py (class TableReader).             *)
(*                                                                         *)
(* The state is the table directory on disk, the TableReader object (the   *)
(* name lists captured by __init__) and the outcome of the last call made  *)
(* on it.  Every method is an action; the numpy/file pipeline inside       *)
(* readColumn and _loadEntry is computed byte by byte by the operators     *)
(* below, with Python's and numpy's failure cases (IndexError, ValueError, *)
(* OSError) kept as outcomes.                                              *)
(*                                                                         *)
(* Conventions: a file is a sequence of bytes (naturals); file positions   *)
(* are 0-based as in Python, TLA+ sequences are 1-based.  An array is a    *)
(* record [shape, flat] with flat in row-major order; an element of an     *)
(* array is the sequence of its itemsize bytes.                            *)
(***************************************************************************)
EXTENDS Integers, Sequences, FiniteSets, TLC

VARIABLES disk, handle, last

vars == <<disk, handle, last>>

(***************************************************************************)
(* Bounds of the model.                                                    *)
(***************************************************************************)
MaxEntries == 3
MaxItems == 2
MaxIdxLen == 3
HdrLen == 2

\* the itemsizes of the element types modelled ("<u1", "<u2")
ItemSizes == {1, 2}

Names == {"a", "b"}

Min(a, b) == IF a <= b THEN a ELSE b

(***************************************************************************)
(* Sequences of length 0..n over S.                                        *)
(***************************************************************************)
SeqsUpTo(S, n) == UNION {[1..k -> S] : k \in 0..n}

RECURSIVE SumSeq(_)
SumSeq(s) == IF s = <<>> THEN 0 ELSE Head(s) + SumSeq(Tail(s))

(***************************************************************************)
(* The version string TableWriter stamps (tablewriter.VERSION).            *)
(***************************************************************************)
ExpectedVersion == "2"

VersionStrings == {"2", "3", "2 "}

(***************************************************************************)
(* Python / numpy primitives.                                              *)
(***************************************************************************)

\* A line of the offsets file: an optional minus sign, decimal digits, and
\* possibly a character that is no digit.
Line(v) == [neg |-> v < 0, digits |-> IF v < 0 THEN 0 - v ELSE v, junk |-> FALSE]

\* int(i.strip())
ParseInt(line) ==
    IF line.junk THEN [ok |-> FALSE, val |-> 0]
    ELSE [ok |-> TRUE, val |-> IF line.neg THEN 0 - line.digits ELSE line.digits]

\* a[i] on a 1-d numpy array, i a Python integer (negative i counts from the end)
NpIndex(a, i) ==
    IF i >= 0 /\ i < Len(a) THEN [ok |-> TRUE, val |-> a[i + 1]]
    ELSE IF i < 0 /\ i >= 0 - Len(a) THEN [ok |-> TRUE, val |-> a[Len(a) + i + 1]]
    ELSE [ok |-> FALSE, val |-> 0]

\* np.diff
Diff(a) == [k \in 1..(Len(a) - 1) |-> a[k + 1] - a[k]]

\* int(x / y) under true division, y > 0: truncation toward zero
TruncDiv(x, y) == IF x >= 0 THEN x \div y ELSE 0 - ((0 - x) \div y)

\* file.read(n) at position pos: the bytes, fewer than n at the end of file
ReadBytes(data, pos, n) ==
    IF n = -1 THEN SubSeq(data, pos + 1, Len(data))
    ELSE SubSeq(data, pos + 1, Min(pos + n, Len(data)))

\* the 1-based positions of the file that read(n) at pos returns
Touched(data, pos, n) ==
    IF n = -1 THEN (pos + 1)..Len(data) ELSE (pos + 1)..Min(pos + n, Len(data))

\* np.frombuffer(bytes, dtype): elements of itemsize bytes each
FromBuffer(bytes, ts) ==
    [ok |-> Len(bytes) % ts = 0,
     elems |-> [k \in 1..(Len(bytes) \div ts) |-> SubSeq(bytes, (k - 1) * ts + 1, k * ts)]]

\* the zero element of np.zeros(..., dtype)
ZeroElem(ts) == [k \in 1..ts |-> 0]

\* ndarray.squeeze(): every dimension of size 1 is removed
RECURSIVE SqueezeShape(_)
SqueezeShape(shape) ==
    IF shape = <<>> THEN <<>>
    ELSE IF Head(shape) = 1 THEN SqueezeShape(Tail(shape))
    ELSE <<Head(shape)>> \o SqueezeShape(Tail(shape))

Squeeze(arr) == [shape |-> SqueezeShape(arr.shape), flat |-> arr.flat]

RECURSIVE Flatten(_)
Flatten(rows) == IF rows = <<>> THEN <<>> ELSE Head(rows) \o Flatten(Tail(rows))

\* np.argsort on a short array (insertion sort): 1-based positions
RECURSIVE InsertSorted(_, _, _)
InsertSorted(p, ix, j) ==
    IF p = <<>> THEN <<j>>
    ELSE IF ix[Head(p)] <= ix[j] THEN <<Head(p)>> \o InsertSorted(Tail(p), ix, j)
    ELSE <<j>> \o p

RECURSIVE ArgSortUpTo(_, _)
ArgSortUpTo(ix, n) ==
    IF n = 0 THEN <<>> ELSE InsertSorted(ArgSortUpTo(ix, n - 1), ix, n)

ArgSort(ix) == ArgSortUpTo(ix, Len(ix))

NoValue == [shape |-> <<>>, flat |-> <<>>]

(***************************************************************************)
(* The table directory.  A column directory holds an offsets file (lines)  *)
(* and a data file: HdrLen bytes of JSON type descriptor, then the raw     *)
(* entry bytes.  Header bytes are 101, 102, ...; the data byte at data     *)
(* position q is q, so every data byte is non-zero and tells where in     *)
(* the file it came from.                                                  *)
(***************************************************************************)
Header == [k \in 1..HdrLen |-> 100 + k]

DataFile(nbytes) == Header \o [q \in 1..nbytes |-> q]

\* the offsets TableWriter records for entries of the given byte sizes
RECURSIVE OffsetsFor(_)
OffsetsFor(sizes) ==
    IF sizes = <<>> THEN <<HdrLen>>
    ELSE LET before == OffsetsFor(SubSeq(sizes, 1, Len(sizes) - 1))
         IN  Append(before, before[Len(before)] + sizes[Len(sizes)])

\* json.loads of the bytes read from the head of the data file: it succeeds
\* on the descriptor itself, and fails (ValueError) on a part of it or on
\* the descriptor followed by entry bytes
JsonLoads(bytes) == [ok |-> bytes = Header]

Ret(status, value, files, touched) ==
    [status |-> status, value |-> value, files |-> files, touched |-> touched]

(***************************************************************************)
(* TableReader._loadOffsets                                                *)
(***************************************************************************)
LoadOffsetsFail(err, files, touched) ==
    [err |-> err, offsets |-> <<>>, itemsize |-> 0, files |-> files, touched |-> touched]

LoadOffsets(d, name) ==
    IF name \notin d.columns
    THEN LoadOffsetsFail("IOError", {"offsets"}, {})
    ELSE LET parsed == [k \in 1..Len(d.offsets) |-> ParseInt(d.offsets[k])]
             offsets == [k \in 1..Len(d.offsets) |-> parsed[k].val]
         IN  IF \E k \in 1..Len(d.offsets) : ~parsed[k].ok
             THEN LoadOffsetsFail("ValueError", {"offsets"}, {})
             ELSE IF Len(offsets) = 0
             THEN LoadOffsetsFail("IndexError", {"offsets", "data"}, {})
             ELSE IF offsets[1] < -1
             THEN LoadOffsetsFail("ValueError", {"offsets", "data"}, {})
             ELSE LET raw == ReadBytes(d.data, 0, offsets[1])
                      got == Touched(d.data, 0, offsets[1])
                  IN  IF ~JsonLoads(raw).ok
                      THEN LoadOffsetsFail("ValueError", {"offsets", "data"}, got)
                      ELSE [err |-> "", offsets |-> offsets, itemsize |-> d.itemsize,
                            files |-> {"offsets", "data"}, touched |-> got]

(***************************************************************************)
(* TableReader._loadEntry                                                  *)
(***************************************************************************)
LoadEntryResult(d, name, index) ==
    LET lo == LoadOffsets(d, name)
        hi == NpIndex(lo.offsets, index + 1)
        lw == NpIndex(lo.offsets, index)
        size == hi.val - lw.val
        bytes == ReadBytes(d.data, lw.val, size)
        buf == FromBuffer(bytes, lo.itemsize)
        got == lo.touched \cup Touched(d.data, lw.val, size)
    IN  IF lo.err # "" THEN Ret(lo.err, NoValue, lo.files, lo.touched)
        ELSE IF ~hi.ok \/ ~lw.ok THEN Ret("IndexError", NoValue, lo.files, lo.touched)
        ELSE IF lw.val < 0 THEN Ret("OSError", NoValue, lo.files, lo.touched)
        ELSE IF size < -1 THEN Ret("ValueError", NoValue, lo.files, lo.touched)
        ELSE IF ~buf.ok THEN Ret("ValueError", NoValue, lo.files, got)
        ELSE Ret("ok", [shape |-> <<Len(buf.elems)>>, flat |-> buf.elems], lo.files, got)

(***************************************************************************)
(* TableReader.readColumn with indices: the seeks computed from the sorted *)
(* indices.  ix holds the caller's element indices (0-based values).       *)
(***************************************************************************)
SeekPlan(ix, ts, n_items) ==
    LET n == Len(ix)
        sort_indices == ArgSort(ix)
        sorted == [k \in 1..n |-> ix[sort_indices[k]]]
    IN  [n |-> n,
         ts |-> ts,
         sort_indices |-> sort_indices,
         sorted |-> sorted,
         seeks |-> [k \in 1..n |-> IF k = 1 THEN sorted[1] * ts
                                   ELSE (sorted[k] - sorted[k - 1] - 1) * ts],
         last_seek |-> (n_items - sorted[n] - 1) * ts]

\* the state of the row loop: file position, rows filled so far, the
\* exception raised (if any), the file positions read
RowState(pos, rows, err, touched) ==
    [pos |-> pos, rows |-> rows, err |-> err, touched |-> touched]

\* dataFile.seek(off, 1): a seek to before the start of the file raises
SeekRel(st, off) ==
    IF st.err # "" THEN st
    ELSE IF st.pos + off < 0 THEN [st EXCEPT !.err = "OSError"]
    ELSE [st EXCEPT !.pos = st.pos + off]

(***************************************************************************)
(* block_read = True: one read per entry, from the first to the last index *)
(* of interest.                                                            *)
(***************************************************************************)
BlockRow(data, plan, st) ==
    LET rel == [k \in 1..plan.n |-> plan.sorted[k] - plan.sorted[1]]
        nread == (rel[plan.n] + 1) * plan.ts
        bytes == ReadBytes(data, st.pos, nread)
        buf == FromBuffer(bytes, plan.ts)
        got == st.touched \cup Touched(data, st.pos, nread)
        \* data[i, sort_indices] = buffer[indices]
        row == [c \in 1..plan.n |->
                  buf.elems[rel[CHOOSE k \in 1..plan.n : plan.sort_indices[k] = c] + 1]]
        seek == plan.last_seek + plan.seeks[1]
    IN  IF ~buf.ok THEN RowState(st.pos, st.rows, "ValueError", got)
        ELSE IF \E k \in 1..plan.n : rel[k] >= Len(buf.elems)
        THEN RowState(st.pos, st.rows, "IndexError", got)
        ELSE SeekRel(RowState(st.pos + Len(bytes), Append(st.rows, row), "", got), seek)

RECURSIVE BlockRows(_, _, _, _)
BlockRows(data, plan, st, left) ==
    IF left = 0 \/ st.err # "" THEN st
    ELSE BlockRows(data, plan, BlockRow(data, plan, st), left - 1)

(***************************************************************************)
(* block_read = False: contiguous indices (a seek of 0) grouped into one   *)
(* read.  A group is the positions of the result it fills and the seek     *)
(* that precedes its read.                                                 *)
(***************************************************************************)
RECURSIVE GroupsUpTo(_, _)
GroupsUpTo(plan, k) ==
    IF k = 1 THEN << [idx |-> <<plan.sort_indices[1]>>, seek |-> plan.seeks[1]] >>
    ELSE LET g == GroupsUpTo(plan, k - 1)
         IN  IF plan.seeks[k] = 0
             THEN [g EXCEPT ![Len(g)].idx = Append(@, plan.sort_indices[k])]
             ELSE Append(g, [idx |-> <<plan.sort_indices[k]>>, seek |-> plan.seeks[k]])

\* read_info = zip(grouped_indices, read_lengths, new_seeks): an iterator,
\* which the loop over the first entry uses up
ReadInfo(groups, i) == IF i = 1 THEN groups ELSE <<>>

\* data[i, idx] = np.frombuffer(...): element-wise, or one value broadcast
GroupRead(data, ts, st, row, g) ==
    LET at == SeekRel(st, g.seek)
        nread == Len(g.idx) * ts
        bytes == ReadBytes(data, at.pos, nread)
        buf == FromBuffer(bytes, ts)
        got == at.touched \cup Touched(data, at.pos, nread)
        m == Len(buf.elems)
        filled == [c \in 1..Len(row) |->
                     IF \E j \in 1..Len(g.idx) : g.idx[j] = c
                     THEN buf.elems[IF m = 1 THEN 1
                                    ELSE CHOOSE j \in 1..Len(g.idx) : g.idx[j] = c]
                     ELSE row[c]]
    IN  IF at.err # "" THEN [st |-> at, row |-> row]
        ELSE IF ~buf.ok \/ (m # Len(g.idx) /\ m # 1)
        THEN [st |-> RowState(at.pos, at.rows, "ValueError", got), row |-> row]
        ELSE [st |-> RowState(at.pos + Len(bytes), at.rows, "", got), row |-> filled]

RECURSIVE GroupReads(_, _, _, _, _)
GroupReads(data, ts, st, row, info) ==
    IF info = <<>> \/ st.err # "" THEN [st |-> st, row |-> row]
    ELSE LET r == GroupRead(data, ts, st, row, Head(info))
         IN  GroupReads(data, ts, r.st, r.row, Tail(info))

GroupedRow(data, plan, groups, st, i) ==
    LET zeros == [c \in 1..plan.n |-> ZeroElem(plan.ts)]
        r == GroupReads(data, plan.ts, st, zeros, ReadInfo(groups, i))
    IN  IF r.st.err # "" THEN r.st
        ELSE SeekRel([r.st EXCEPT !.rows = Append(@, r.row)], plan.last_seek)

RECURSIVE GroupedRows(_, _, _, _, _, _)
GroupedRows(data, plan, groups, st, i, nEntries) ==
    IF i > nEntries \/ st.err # "" THEN st
    ELSE GroupedRows(data, plan, groups, GroupedRow(data, plan, groups, st, i),
                     i + 1, nEntries)

(***************************************************************************)
(* TableReader.readColumn.  arg = [given, ix]: given is FALSE for          *)
(* indices=None.                                                           *)
(***************************************************************************)
ReadFull(d, lo, nEntries) ==
    LET bytes == ReadBytes(d.data, lo.offsets[1], -1)
        buf == FromBuffer(bytes, lo.itemsize)
        got == lo.touched \cup Touched(d.data, lo.offsets[1], -1)
        total == Len(buf.elems)
    IN  IF lo.offsets[1] < 0 THEN Ret("OSError", NoValue, lo.files, lo.touched)
        ELSE IF ~buf.ok THEN Ret("ValueError", NoValue, lo.files, got)
        \* reshape(nEntries, -1)
        ELSE IF nEntries = 0 \/ total % nEntries # 0
        THEN Ret("ValueError", NoValue, lo.files, got)
        ELSE Ret("ok", Squeeze([shape |-> <<nEntries, total \div nEntries>>,
                                flat |-> buf.elems]), lo.files, got)

ReadIndexed(d, lo, sizes, ix, block_read) ==
    LET nEntries == Len(sizes)
        ts == lo.itemsize
        plan == SeekPlan(ix, ts, TruncDiv(sizes[1], ts))
        start == RowState(lo.offsets[1], <<>>, "", lo.touched)
        done == IF block_read
                THEN BlockRows(d.data, plan, SeekRel(start, plan.seeks[1]), nEntries)
                ELSE GroupedRows(d.data, plan, GroupsUpTo(plan, plan.n), start, 1, nEntries)
    IN  \* sizes[0] on a column without entries
        IF nEntries = 0 THEN Ret("IndexError", NoValue, lo.files, lo.touched)
        ELSE IF lo.offsets[1] < 0 THEN Ret("OSError", NoValue, lo.files, lo.touched)
        \* indices[0] on an empty array
        ELSE IF Len(ix) = 0 THEN Ret("IndexError", NoValue, lo.files, lo.touched)
        ELSE IF done.err # "" THEN Ret(done.err, NoValue, lo.files, done.touched)
        ELSE Ret("ok", Squeeze([shape |-> <<nEntries, Len(ix)>>,
                                flat |-> Flatten(done.rows)]), lo.files, done.touched)

\* readColumn without the test of the entry sizes (a variant the
\* variable-width property must tell apart)
ReadColumnWidthUnchecked(h, d, name, arg, block_read) ==
    LET lo == LoadOffsets(d, name)
        sizes == Diff(lo.offsets)
    IN  IF name \notin h.columnNames THEN Ret("DoesNotExistError", NoValue, {}, {})
        ELSE IF lo.err # "" THEN Ret(lo.err, NoValue, lo.files, lo.touched)
        ELSE IF ~arg.given THEN ReadFull(d, lo, Len(sizes))
        ELSE ReadIndexed(d, lo, sizes, arg.ix, block_read)

\* readColumn looking the name up in the directory instead of the list
\* captured by __init__ (a variant the captured-names property must tell
\* apart)
ReadColumnRelisted(h, d, name, arg, block_read) ==
    LET lo == LoadOffsets(d, name)
        sizes == Diff(lo.offsets)
    IN  IF name \notin d.columns THEN Ret("DoesNotExistError", NoValue, {"columns"}, {})
        ELSE IF lo.err # "" THEN Ret(lo.err, NoValue, lo.files, lo.touched)
        ELSE IF Cardinality({sizes[k] : k \in 1..Len(sizes)}) > 1
        THEN Ret("VariableWidthError", NoValue, lo.files, lo.touched)
        ELSE IF ~arg.given THEN ReadFull(d, lo, Len(sizes))
        ELSE ReadIndexed(d, lo, sizes, arg.ix, block_read)

ReadColumnResult(h, d, name, arg, block_read) ==
    LET lo == LoadOffsets(d, name)
        sizes == Diff(lo.offsets)
    IN  IF name \notin h.columnNames THEN Ret("DoesNotExistError", NoValue, {}, {})
        ELSE IF lo.err # "" THEN Ret(lo.err, NoValue, lo.files, lo.touched)
        ELSE IF Cardinality({sizes[k] : k \in 1..Len(sizes)}) > 1
        THEN Ret("VariableWidthError", NoValue, lo.files, lo.touched)
        ELSE IF ~arg.given THEN ReadFull(d, lo, Len(sizes))
        ELSE ReadIndexed(d, lo, sizes, arg.ix, block_read)

(***************************************************************************)
(* TableReader.__init__                                                    *)
(***************************************************************************)
NoHandle == [open |-> FALSE, attributeNames |-> {}, columnNames |-> {}]

Call(op, name, arg, block_read, index, msg, names, r) ==
    [op |-> op, name |-> name, given |-> arg.given, ix |-> arg.ix,
     block_read |-> block_read, index |-> index, msg |-> msg, names |-> names,
     status |-> r.status, value |-> r.value, files |-> r.files, touched |-> r.touched]

NoArg == [given |-> FALSE, ix |-> <<>>]

Idle == Call("idle", "", NoArg, FALSE, 0, "", {}, Ret("", NoValue, {}, {}))

OpenFail(class, msg) ==
    [handle |-> NoHandle,
     call |-> Call("open", "", NoArg, FALSE, 0, msg, {}, Ret(class, NoValue, {"version"}, {}))]

\* __init__ without the look for a zipped version file (a variant the
\* open-failure property must tell apart)
OpenTableZippedUnchecked(d) ==
    IF ~d.readable
    THEN OpenFail("VersionError", "could not open the version file")
    ELSE IF d.version # ExpectedVersion
    THEN OpenFail("VersionError", "expected version")
    ELSE IF ~d.dirs
    THEN OpenFail("OSError", "")
    ELSE [handle |-> [open |-> TRUE, attributeNames |-> d.attributes,
                      columnNames |-> d.columns],
          call |-> Call("open", "", NoArg, FALSE, 0, "", {},
                        Ret("ok", NoValue, {"version"}, {}))]

OpenTable(d) ==
    IF ~d.readable
    THEN IF d.zipped
         THEN OpenFail("NotUnzippedError", "was found zipped")
         ELSE OpenFail("VersionError", "could not open the version file")
    ELSE IF d.version # ExpectedVersion
    THEN OpenFail("VersionError", "expected version")
    ELSE IF ~d.dirs
    THEN OpenFail("OSError", "")
    ELSE [handle |-> [open |-> TRUE, attributeNames |-> d.attributes,
                      columnNames |-> d.columns],
          call |-> Call("open", "", NoArg, FALSE, 0, "", {},
                        Ret("ok", NoValue, {"version"}, {}))]

(***************************************************************************)
(* TableReader.readAttribute: the attribute file holds a JSON list.        *)
(***************************************************************************)
AttributeFile == <<1, 2, 3>>

\* json.load of the attribute file
JsonLoad(list) == [shape |-> <<Len(list)>>, flat |-> [k \in 1..Len(list) |-> <<list[k]>>]]

ReadAttributeResult(h, d, name) ==
    IF name \notin h.attributeNames THEN Ret("DoesNotExistError", NoValue, {}, {})
    ELSE IF name \notin d.attributes THEN Ret("IOError", NoValue, {"attribute"}, {})
    ELSE Ret("ok", JsonLoad(AttributeFile), {"attribute"}, {})

(***************************************************************************)
(* The actions: one per method of TableReader.  A call is made when no     *)
(* result is pending; Return hands the result to the caller.               *)
(***************************************************************************)
IndexLists == SeqsUpTo(-1..MaxItems, MaxIdxLen)

Args == {NoArg} \cup {[given |-> TRUE, ix |-> ix] : ix \in IndexLists}

EntryIndices == (0 - (MaxEntries + 2))..(MaxEntries + 1)

Ready == last.op = "idle"

Open ==
    /\ Ready
    /\ ~handle.open
    /\ LET r == OpenTable(disk)
       IN  /\ handle' = r.handle
           /\ last' = r.call
    /\ UNCHANGED disk

ReadAttribute ==
    /\ Ready
    /\ handle.open
    /\ \E name \in Names :
          last' = Call("readAttribute", name, NoArg, FALSE, 0, "", {},
                       ReadAttributeResult(handle, disk, name))
    /\ UNCHANGED <<disk, handle>>

ReadColumn ==
    /\ Ready
    /\ handle.open
    /\ \E name \in Names, arg \in Args, block_read \in BOOLEAN :
          last' = Call("readColumn", name, arg, block_read, 0, "", {},
                       ReadColumnResult(handle, disk, name, arg, block_read))
    /\ UNCHANGED <<disk, handle>>

LoadEntry ==
    /\ Ready
    /\ handle.open
    /\ \E name \in Names, index \in EntryIndices :
          last' = Call("_loadEntry", name, NoArg, FALSE, index, "", {},
                       LoadEntryResult(disk, name, index))
    /\ UNCHANGED <<disk, handle>>

AttributeNames ==
    /\ Ready
    /\ handle.open
    /\ last' = Call("attributeNames", "", NoArg, FALSE, 0, "", handle.attributeNames,
                    Ret("ok", NoValue, {}, {}))
    /\ UNCHANGED <<disk, handle>>

ColumnNames ==
    /\ Ready
    /\ handle.open
    /\ last' = Call("columnNames", "", NoArg, FALSE, 0, "", handle.columnNames,
                    Ret("ok", NoValue, {}, {}))
    /\ UNCHANGED <<disk, handle>>

Return ==
    /\ ~Ready
    /\ last' = Idle
    /\ UNCHANGED <<disk, handle>>

(***************************************************************************)
(* The table directory changing under an open reader.                      *)
(***************************************************************************)
CreateColumn ==
    /\ \E name \in Names \ disk.columns : disk' = [disk EXCEPT !.columns = @ \cup {name}]
    /\ UNCHANGED <<handle, last>>

RemoveColumn ==
    /\ \E name \in disk.columns : disk' = [disk EXCEPT !.columns = @ \ {name}]
    /\ UNCHANGED <<handle, last>>

CreateAttribute ==
    /\ \E name \in Names \ disk.attributes :
          disk' = [disk EXCEPT !.attributes = @ \cup {name}]
    /\ UNCHANGED <<handle, last>>

RemoveAttribute ==
    /\ \E name \in disk.attributes : disk' = [disk EXCEPT !.attributes = @ \ {name}]
    /\ UNCHANGED <<handle, last>>

(***************************************************************************)
(* Initial states: the tables on disk.                                     *)
(***************************************************************************)
Table(readable, version, zipped, dirs, attributes, columns, lines, itemsize, nbytes) ==
    [readable |-> readable, version |-> version, zipped |-> zipped, dirs |-> dirs,
     attributes |-> attributes, columns |-> columns,
     offsets |-> lines, data |-> DataFile(nbytes), itemsize |-> itemsize]

\* the offsets file TableWriter leaves for entries of the given item counts
WrittenLines(items, ts) ==
    LET offs == OffsetsFor([k \in 1..Len(items) |-> items[k] * ts])
    IN  [k \in 1..Len(offs) |-> Line(offs[k])]

EntryItems == SeqsUpTo(0..MaxItems, MaxEntries)

\* a readable, current table whose columns hold the given entries
GoodTable(items, ts, lines) ==
    Table(TRUE, ExpectedVersion, FALSE, TRUE, {"a"}, {"a"}, lines, ts, SumSeq(items) * ts)

WellFormedTables ==
    {GoodTable(items, ts, WrittenLines(items, ts)) : items \in EntryItems, ts \in ItemSizes}

\* tables that differ in what __init__ looks at
MarkerTables ==
    {Table(readable, version, zipped, dirs, {"a"}, {"a"}, WrittenLines(<<1>>, 1), 1, 1) :
        readable \in BOOLEAN, version \in VersionStrings,
        zipped \in BOOLEAN, dirs \in BOOLEAN}

\* offsets files that break the format: a line that is no integer, a
\* negative line, two lines exchanged
Junk(lines, k) == [lines EXCEPT ![k].junk = TRUE]

Negated(lines, k) == [lines EXCEPT ![k].neg = TRUE]

Exchanged(lines, k) == [lines EXCEPT ![k] = lines[k + 1], ![k + 1] = lines[k]]

Damaged(lines) ==
    {Junk(lines, k) : k \in 1..Len(lines)}
        \cup {Negated(lines, k) : k \in 1..Len(lines)}
        \cup {Exchanged(lines, k) : k \in 1..(Len(lines) - 1)}

CorruptTables ==
    UNION {{GoodTable(items, ts, lines) : lines \in Damaged(WrittenLines(items, ts))} :
              items \in EntryItems, ts \in ItemSizes}

TablesWithNames ==
    {Table(TRUE, ExpectedVersion, FALSE, TRUE, attributes, columns,
           WrittenLines(<<1>>, 1), 1, 1) :
        attributes \in SUBSET Names, columns \in SUBSET Names}

Init ==
    /\ disk \in WellFormedTables \cup MarkerTables
    /\ handle = NoHandle
    /\ last = Idle

InitCorrupt ==
    /\ disk \in CorruptTables
    /\ handle = NoHandle
    /\ last = Idle

InitTable ==
    /\ disk \in TablesWithNames
    /\ handle = NoHandle
    /\ last = Idle

Next ==
    \/ Open
    \/ ReadAttribute
    \/ ReadColumn
    \/ LoadEntry
    \/ AttributeNames
    \/ ColumnNames
    \/ Return

NextTable ==
    \/ Next
    \/ CreateColumn
    \/ RemoveColumn
    \/ CreateAttribute
    \/ RemoveAttribute

Spec == Init /\ [][Next]_vars

SpecCorrupt == InitCorrupt /\ [][Next]_vars

SpecTable == InitTable /\ [][NextTable]_vars

(***************************************************************************)
(* What the claims speak of, read off the files themselves.                *)
(***************************************************************************)
Offs == [k \in 1..Len(disk.offsets) |-> ParseInt(disk.offsets[k]).val]

EntryCount == Len(disk.offsets) - 1

\* the offsets file is as TableWriter leaves it
Sound ==
    /\ Len(disk.offsets) >= 1
    /\ \A k \in 1..Len(disk.offsets) : ~disk.offsets[k].junk /\ ~disk.offsets[k].neg
    /\ \A k \in 1..EntryCount : Offs[k] <= Offs[k + 1]

EntrySize(i) == Offs[i + 2] - Offs[i + 1]

Uniform == \A i, j \in 0..(EntryCount - 1) : EntrySize(i) = EntrySize(j)

ElementsPerEntry == EntrySize(0) \div disk.itemsize

\* element j of entry i, as the bytes of the data file
ElementAt(i, j) ==
    SubSeq(disk.data, Offs[i + 1] + j * disk.itemsize + 1,
           Offs[i + 1] + (j + 1) * disk.itemsize)

\* all elements of entry i
EntryElements(i) == [j \in 1..(EntrySize(i) \div disk.itemsize) |-> ElementAt(i, j - 1)]

Known == last.name \in handle.columnNames /\ last.name \in disk.columns

LastArg == [given |-> last.given, ix |-> last.ix]

\* an indexed read the contract covers
ValidIndexedRead ==
    /\ last.op = "readColumn" /\ last.given /\ Known
    /\ Sound /\ Uniform /\ EntryCount >= 1
    /\ Len(last.ix) >= 1
    /\ \A k \in 1..Len(last.ix) : last.ix[k] >= 0 /\ last.ix[k] < ElementsPerEntry

\* row i of an array a, as numpy's a[i] gives it (flattened)
HasRow(a, i) == a.shape # <<>> /\ i < a.shape[1]

RowOf(a, i) ==
    LET width == Len(a.flat) \div a.shape[1]
    IN  SubSeq(a.flat, i * width + 1, (i + 1) * width)

(***************************************************************************)
(* C1: on a column of uniform entry size with at least one entry, an       *)
(* indexed read with valid indices returns the same array under            *)
(* block_read=True and block_read=False, in every row.                     *)
(***************************************************************************)
C1_BothStrategiesAgree ==
    ValidIndexedRead =>
        LET other == ReadColumnResult(handle, disk, last.name, LastArg, ~last.block_read)
        IN  /\ last.status = other.status
            /\ last.value = other.value

(***************************************************************************)
(* C2: under both strategies, before the squeeze, result[i][k] is element  *)
(* indices[k] of entry i, for the caller's order of indices.               *)
(***************************************************************************)
C2_ColumnsFollowCallerOrder ==
    ValidIndexedRead =>
        /\ last.status = "ok"
        /\ Len(last.value.flat) = EntryCount * Len(last.ix)
        /\ \A i \in 0..(EntryCount - 1), k \in 1..Len(last.ix) :
              last.value.flat[i * Len(last.ix) + k] = ElementAt(i, last.ix[k])

(***************************************************************************)
(* C3: a full read of a uniform column has shape (entryCount,              *)
(* elementsPerEntry), or (entryCount,) when elementsPerEntry is 1: the     *)
(* entry dimension is kept, also for a single entry.                       *)
(***************************************************************************)
C3_FullReadKeepsEntryDimension ==
    (/\ last.op = "readColumn" /\ ~last.given /\ Known
     /\ Sound /\ Uniform /\ EntryCount >= 1 /\ ElementsPerEntry >= 1)
    =>  /\ last.status = "ok"
        /\ last.value.shape = IF ElementsPerEntry > 1
                              THEN <<EntryCount, ElementsPerEntry>>
                              ELSE <<EntryCount>>

(***************************************************************************)
(* C4: on a uniform column, _loadEntry(name, i) equals row i of what       *)
(* readColumn(name) returns.                                               *)
(***************************************************************************)
C4_EntryIsRowOfFullRead ==
    (/\ last.op = "_loadEntry" /\ Known
     /\ Sound /\ Uniform
     /\ last.index >= 0 /\ last.index < EntryCount
     /\ ElementsPerEntry >= 1)
    =>  LET full == ReadColumnResult(handle, disk, last.name, NoArg, TRUE)
        IN  /\ last.status = "ok"
            /\ full.status = "ok"
            /\ HasRow(full.value, last.index)
            /\ RowOf(full.value, last.index) = last.value.flat

(***************************************************************************)
(* C5: on a column with entries of different byte sizes, readColumn fails  *)
(* with VariableWidthError for every indices and block_read, having read   *)
(* nothing of the data file beyond the type descriptor; _loadEntry(name,   *)
(* i) succeeds for every entry i and returns the elements decoded from     *)
(* bytes [offsets[i], offsets[i+1]).                                       *)
(***************************************************************************)
C5_VariableWidth ==
    (Known /\ Sound /\ ~Uniform)
    =>  /\ last.op = "readColumn" =>
              /\ last.status = "VariableWidthError"
              /\ last.value = NoValue
              /\ last.touched \subseteq 1..Offs[1]
        /\ (last.op = "_loadEntry" /\ last.index >= 0 /\ last.index < EntryCount) =>
              /\ last.status = "ok"
              /\ last.value = [shape |-> <<EntrySize(last.index) \div disk.itemsize>>,
                               flat |-> EntryElements(last.index)]
              /\ last.touched \ (1..Offs[1]) =
                    (Offs[last.index + 1] + 1)..Offs[last.index + 2]

C5_Witness ==
    /\ Known /\ Sound /\ ~Uniform
    /\ last.op = "readColumn" /\ last.given /\ Len(last.ix) >= 1 /\ ~last.block_read
    /\ last.status = "VariableWidthError"

\* the kind of a failed open: the exception class and what its message says
OpenFailureKind ==
    IF last.status = "NotUnzippedError" THEN "NotUnzipped"
    ELSE IF last.status = "VersionError" /\ last.msg = "expected version"
    THEN "VersionMismatch"
    ELSE IF last.status = "VersionError" /\ last.msg = "could not open the version file"
    THEN "OpenFailure"
    ELSE "other"

C7_EntryIndexOutOfRangeFails ==
    (/\ last.op = "_loadEntry" /\ Known /\ Sound
     /\ (last.index < 0 \/ last.index >= EntryCount))
    =>  last.status # "ok" /\ last.value = NoValue

(***************************************************************************)
(* C8: an indexed read of a uniform column fails, under both strategies,   *)
(* when some index lies outside [0, elementsPerEntry), and returns no      *)
(* array.                                                                  *)
(***************************************************************************)
C8_ElementIndexOutOfRangeFails ==
    (/\ last.op = "readColumn" /\ last.given /\ Known
     /\ Sound /\ Uniform /\ EntryCount >= 1
     /\ \E k \in 1..Len(last.ix) : last.ix[k] < 0 \/ last.ix[k] >= ElementsPerEntry)
    =>  last.status # "ok" /\ last.value = NoValue

(***************************************************************************)
(* C9: every read of a column fails and returns no data when its offsets   *)
(* file has a line that is no non-negative integer or two consecutive      *)
(* values that decrease.                                                   *)
(***************************************************************************)
C9_CorruptOffsetsFail ==
    (/\ last.op \in {"readColumn", "_loadEntry"} /\ Known
     /\ ~Sound)
    =>  last.status # "ok" /\ last.value = NoValue

\* a step leaves the captured lists alone, and the open captures the directory
CapturedAtOpen ==
    /\ (~handle.open /\ handle'.open) =>
          /\ handle'.attributeNames = disk.attributes
          /\ handle'.columnNames = disk.columns
    /\ handle.open => handle' = handle

\* what the name methods and the name checks answer
NamesAnswered ==
    /\ last.op = "attributeNames" => last.names = handle.attributeNames
    /\ last.op = "columnNames" => last.names = handle.columnNames
    /\ last.op = "readAttribute" =>
          /\ last.status = "DoesNotExistError" <=> last.name \notin handle.attributeNames
          /\ last.status = "DoesNotExistError" => last.files = {}
    /\ last.op = "readColumn" =>
          /\ last.status = "DoesNotExistError" <=> last.name \notin handle.columnNames
          /\ last.status = "DoesNotExistError" => last.files = {}

(***************************************************************************)
(* C10: once open, the reader's name lists never change, whatever happens  *)
(* to the directory: attributeNames and columnNames return the lists       *)
(* captured by the open, readAttribute and readColumn fail with            *)
(* DoesNotExistError exactly for the names outside them, and that failure  *)
(* touches no file.                                                        *)
(***************************************************************************)
C10_NamesFixedAtOpen == [][CapturedAtOpen]_vars /\ []NamesAnswered

C10_Witness ==
    /\ handle.open
    /\ last.op = "readColumn"
    /\ last.name \in disk.columns \ handle.columnNames
    /\ last.status = "DoesNotExistError"

====
